---- MODULE Spec2Model ----
(***************************************************************************)
(* A model of py-vptree (src/vptree/__init__.py): the vantage-point tree   *)
(* VPTree with its Node, under the default distance function hamming.      *)
(*                                                                         *)
(* A Node is the record [point, threshold, inside, outside]; an absent     *)
(* child (Python's None) is the empty tuple.  statistics.median returns    *)
(* the mean of the two middle values of an even-sized list, so a           *)
(* threshold may be a half-integer: the field `threshold` holds TWICE the  *)
(* Python value, and every comparison of the code against a threshold is   *)
(* written with both sides doubled.                                        *)
(*                                                                         *)
(* The constructor lowers the interpreter's recursion limit to the length  *)
(* of the list left after the vantage point is drawn (line 107) and builds *)
(* the Nodes under that limit.  The model takes the depth the constructor  *)
(* is called at as an input and counts one frame for each call the code    *)
(* makes (Node.__init__, dist_fn, statistics.median, secrets.choice), none *)
(* for what a library function calls in turn.  A construction that raises  *)
(* RecursionError in the model therefore raises it under every             *)
(* interpreter; an interpreter that counts more frames also rejects some   *)
(* of the short lists the model builds.  VPTree.threshold (line 102) is    *)
(* read by __repr__ alone and is not kept.                                 *)
(***************************************************************************)
EXTENDS Integers, Sequences, FiniteSets, TLC

\* ------------------------------------------------------------- bounds
MaxPoint == 2     \* the points are the integers 0..MaxPoint
MaxInitial == 6   \* longest list given to the constructor
MaxDepth == 2     \* deepest recursion depth the constructor is called at
MaxOps == 2       \* insert/remove calls after construction
MaxK == 2         \* largest k of a search
MaxRadius == 2    \* largest radius of a radius query

PointSet == 0..MaxPoint

\* float("inf"), the initial tau of search.
Inf == -1

None == <<>>

\* ------------------------------------------------------ list helpers
Range(s) == {s[i] : i \in DOMAIN s}

Max2(a, b) == IF a >= b THEN a ELSE b

\* list.remove(x): drops the first element equal to x.
RECURSIVE ListRemove(_, _)
ListRemove(s, x) ==
    IF s = <<>> THEN <<>>
    ELSE IF Head(s) = x THEN Tail(s)
    ELSE <<Head(s)>> \o ListRemove(Tail(s), x)

\* sorted(data) of a list of integers.
RECURSIVE InsertSorted(_, _)
InsertSorted(s, x) ==
    IF s = <<>> THEN <<x>>
    ELSE IF x < Head(s) THEN <<x>> \o s
    ELSE <<Head(s)>> \o InsertSorted(Tail(s), x)

RECURSIVE Sorted(_)
Sorted(s) == IF s = <<>> THEN <<>> ELSE InsertSorted(Sorted(Tail(s)), Head(s))

\* Twice statistics.median(data) of a non-empty list: the middle value of an
\* odd-sized list, the mean of the two middle values of an even-sized one.
Median2(data) ==
    LET s == Sorted(data)
        n == Len(s)
    IN IF n % 2 = 1 THEN 2 * s[(n + 1) \div 2]
       ELSE s[n \div 2] + s[n \div 2 + 1]

\* ----------------------------------------------------------- hamming
RECURSIVE BitXor(_, _)
BitXor(a, b) ==
    IF a = 0 /\ b = 0 THEN 0
    ELSE (((a % 2) + (b % 2)) % 2) + 2 * BitXor(a \div 2, b \div 2)

RECURSIVE CountOnes(_)
CountOnes(n) == IF n = 0 THEN 0 ELSE (n % 2) + CountOnes(n \div 2)

hamming(a, b) == CountOnes(BitXor(a, b))

\* The tree's distance function (the constructor's default).
dist_fn(a, b) == hamming(a, b)

\* -------------------------------------------------------------- Node
Leaf(point) ==
    [point |-> point, threshold |-> 0, inside |-> None, outside |-> None]

\* The outcome of a call: the exception it raised ("None": it returned) and
\* the node it returned.
Returned(node) == [raised |-> "None", node |-> node]
Raised(exc) == [raised |-> exc, node |-> None]

\* Node.__init__, line 47: the subitems kept for the inside child.
InInside(point, d, threshold) == 2 * dist_fn(point, d) <= threshold

\* Node.__init__, line 48: the subitems kept for the outside child.
InOutsideGE(point, d, threshold) == 2 * dist_fn(point, d) >= threshold
InOutside(point, d, threshold) == 2 * dist_fn(point, d) > threshold

\* Node(point, dist_fn, subitems): every tree the random choices can give.
\* `frames` is how many more frames the recursion limit set by the
\* constructor allows below the caller: the call itself takes one, the calls
\* of dist_fn, statistics.median and secrets.choice one more while they run,
\* each child's construction is one level deeper.  A call that has no frame
\* left raises RecursionError, and an exception of a child's construction
\* propagates (the inside child is built first).
RECURSIVE Node(_, _, _)
Node(point, subitems, frames) ==
    IF frames < 1 THEN {Raised("RecursionError")}
    ELSE IF Len(subitems) = 0 THEN {Returned(Leaf(point))}
    ELSE IF frames < 2 THEN {Raised("RecursionError")}
    ELSE
      LET distances == [i \in DOMAIN subitems |-> dist_fn(point, subitems[i])]
          threshold == Median2(distances)
          inside == SelectSeq(subitems, LAMBDA d : InInside(point, d, threshold))
          outside == SelectSeq(subitems, LAMBDA d : InOutside(point, d, threshold))
          Child(items) ==
              IF Len(items) = 0 THEN {Returned(None)}
              ELSE UNION {Node(choice, ListRemove(items, choice), frames - 1) :
                              choice \in Range(items)}
      IN {IF i.raised # "None" THEN i
          ELSE IF o.raised # "None" THEN o
          ELSE Returned([point |-> point, threshold |-> threshold,
                         inside |-> i.node, outside |-> o.node]) :
              i \in Child(inside), o \in Child(outside)}

\* Node.insert, line 63: the new point goes to the inside child.
GoesInsideLE(node, point) == 2 * dist_fn(node.point, point) <= node.threshold
GoesInside(node, point) == 2 * dist_fn(node.point, point) < node.threshold

\* Node.insert(point, dist_fn).
RECURSIVE NodeInsert(_, _)
NodeInsert(node, point) ==
    IF GoesInside(node, point)
    THEN IF node.inside = None
         THEN [node EXCEPT !.inside = Leaf(point)]
         ELSE [node EXCEPT !.inside = NodeInsert(node.inside, point)]
    ELSE IF node.outside = None
         THEN [node EXCEPT !.outside = Leaf(point)]
         ELSE [node EXCEPT !.outside = NodeInsert(node.outside, point)]

\* Node.__len__: the number of descendants of the node (the node excluded).
RECURSIVE NodeLen(_)
NodeLen(node) ==
    (IF node.inside # None THEN NodeLen(node.inside) + 1 ELSE 0)
    + (IF node.outside # None THEN NodeLen(node.outside) + 1 ELSE 0)

\* The truth value of `node` in `if node:`. Node defines __len__, so a Node
\* without children is false, like None.
Truthy(node) == IF node = None THEN FALSE ELSE NodeLen(node) > 0

\* ------------------------------------------------------------ VPTree
\* VPTree.__init__(initial, dist_fn) called at recursion depth `depth` (the
\* depth of the __init__ frame itself): every outcome the random choice of
\* the vantage point and of the children allows.
VPTreeInit(initial, depth) ==
    IF Len(initial) = 0 THEN {Returned(None)}
    ELSE UNION {
        LET rest == ListRemove(initial, vp_choice)
        IN \* statistics.median of an empty list raises StatisticsError.
           IF Len(rest) = 0 THEN {Raised("StatisticsError")}
           \* sys.setrecursionlimit(len(initial)) raises RecursionError when
           \* the new limit is not above the current depth.
           ELSE IF depth >= Len(rest) THEN {Raised("RecursionError")}
           ELSE Node(vp_choice, rest, Len(rest) - depth) :
        vp_choice \in Range(initial)}

\* VPTree.__len__.
VPTreeLen(root) == IF root # None THEN NodeLen(root) + 1 ELSE 0

\* VPTree.insert(point).
VPTreeInsert(root, point) ==
    IF root = None THEN Leaf(point) ELSE NodeInsert(root, point)

\* VPTree.search, line 136: the node's point is admitted to the results.
Admits(dist, tau) == IF tau = Inf THEN TRUE ELSE dist < tau

\* VPTree.search, line 144: the outside child is queued.
QueuesOutside(dist, threshold, tau) ==
    IF tau = Inf THEN TRUE ELSE 2 * dist < threshold + 2 * tau

\* VPTree.search, line 148: the inside child is queued.
QueuesInside(dist, threshold, tau) ==
    IF tau = Inf THEN TRUE ELSE 2 * dist >= threshold - 2 * tau

\* results.sort(key=lambda node: node[1]): a stable sort of (point, distance)
\* pairs by distance.
RECURSIVE InsertByDistance(_, _)
InsertByDistance(s, e) ==
    IF s = <<>> THEN <<e>>
    ELSE IF e[2] < Head(s)[2] THEN <<e>> \o s
    ELSE <<Head(s)>> \o InsertByDistance(Tail(s), e)

RECURSIVE SortByDistance(_)
SortByDistance(s) ==
    IF s = <<>> THEN <<>>
    ELSE InsertByDistance(SortByDistance(SubSeq(s, 1, Len(s) - 1)), s[Len(s)])

\* The while loop of VPTree.search, from the state (to_search, results, tau).
\* None.point raises AttributeError; results[-1] of an empty list raises
\* IndexError.
RECURSIVE SearchLoop(_, _, _, _, _)
SearchLoop(query, k, to_search, results, tau) ==
    IF to_search = <<>> THEN [raised |-> "None", results |-> results]
    ELSE
      LET current_node == Head(to_search)
          rest == Tail(to_search)
      IN IF current_node = None
         THEN [raised |-> "AttributeError", results |-> <<>>]
         ELSE
           LET dist == dist_fn(query, current_node.point)
               admitted == Admits(dist, tau)
               appended == IF admitted
                           THEN Append(results, <<current_node.point, dist>>)
                           ELSE results
               over == admitted /\ Len(appended) > k
               sorted == SortByDistance(appended)
               popped == SubSeq(sorted, 1, Len(sorted) - 1)
           IN IF over /\ popped = <<>>
              THEN [raised |-> "IndexError", results |-> <<>>]
              ELSE
                LET results1 == IF over THEN popped ELSE appended
                    tau1 == IF over
                            THEN dist_fn(query, popped[Len(popped)][1])
                            ELSE tau
                    queue1 == IF QueuesOutside(dist, current_node.threshold, tau1)
                                 /\ current_node.outside # None
                              THEN Append(rest, current_node.outside)
                              ELSE rest
                    queue2 == IF QueuesInside(dist, current_node.threshold, tau1)
                                 /\ current_node.inside # None
                              THEN Append(queue1, current_node.inside)
                              ELSE queue1
                IN SearchLoop(query, k, queue2, results1, tau1)

\* VPTree.search(query, k).
VPTreeSearch(root, query, k) == SearchLoop(query, k, <<root>>, <<>>, Inf)

\* The inner function search(node, point, tau, results) of VPTree.radius:
\* the (node, distance) pairs it appends, in order.
RECURSIVE RadiusSearch(_, _, _)
RadiusSearch(node, point, tau) ==
    IF node = None THEN <<>>
    ELSE
      LET distance == dist_fn(point, node.point)
      IN (IF distance < tau THEN <<(<<node, distance>>)>> ELSE <<>>)
         \o (IF 2 * distance < node.threshold + 2 * tau
             THEN RadiusSearch(node.inside, point, tau) ELSE <<>>)
         \o (IF 2 * distance >= node.threshold - 2 * tau
             THEN RadiusSearch(node.outside, point, tau) ELSE <<>>)

\* VPTree.radius(point, radius).
VPTreeRadius(root, point, radius) == RadiusSearch(root, point, radius)

\* remove_from_node, lines 224-231: the threshold given to a node on the way
\* back up.
Rethreshold(node) ==
    IF Truthy(node.inside) /\ Truthy(node.outside)
    THEN Max2(node.inside.threshold, node.outside.threshold)
    ELSE IF Truthy(node.inside) THEN node.inside.threshold
    ELSE IF Truthy(node.outside) THEN node.outside.threshold
    ELSE 0

\* remove_from_node, line 219: the descent continues in the inside child. The
\* point itself, not its distance, is compared with the threshold.
DescendsInside(node, point_to_remove) == 2 * point_to_remove <= node.threshold

\* remove_from_node(node, point_to_remove) of VPTree.remove: the node it returns
\* (its second value is dropped by every caller), or the exception of calling
\* Node.get_nearest_neighbor, which Node does not define.
RECURSIVE remove_from_node(_, _)
remove_from_node(node, point_to_remove) ==
    IF node = None THEN Returned(None)
    ELSE IF node.point = point_to_remove
    THEN IF Truthy(node.inside) THEN Raised("AttributeError")
         ELSE Returned(None)
    ELSE
      LET inward == DescendsInside(node, point_to_remove)
          sub == remove_from_node(IF inward THEN node.inside ELSE node.outside,
                                  point_to_remove)
          relinked == IF inward THEN [node EXCEPT !.inside = sub.node]
                      ELSE [node EXCEPT !.outside = sub.node]
      IN IF sub.raised # "None" THEN sub
         ELSE Returned([relinked EXCEPT !.threshold = Rethreshold(relinked)])

\* VPTree.remove(point_to_remove).
VPTreeRemove(root, point_to_remove) == remove_from_node(root, point_to_remove)

\* ------------------------------------------------------------- state
VARIABLES
    phase,          \* "new": not constructed; "built"; "failed": __init__ raised
    vantage_point,  \* VPTree.vantage_point: the root Node, or None
    given,          \* the list the constructor was given
    raised,         \* the exception the last call raised, "None" if it returned
    results,        \* what the last search or radius call returned
    last,           \* the last call: its name, its point argument, its number
    prev,           \* vantage_point before the last call
    count,          \* points built + inserted - returned removes of a stored point
    nops            \* insert and remove calls so far

vars == <<phase, vantage_point, given, raised, results, last, prev, count, nops>>

Call(op, arg, num) == [op |-> op, arg |-> arg, num |-> num]

\* How often `point` is stored in the subtree of `node`.
RECURSIVE PointCount(_, _)
PointCount(node, point) ==
    IF node = None THEN 0
    ELSE (IF node.point = point THEN 1 ELSE 0)
         + PointCount(node.inside, point) + PointCount(node.outside, point)

Stored(node, point) == PointCount(node, point) > 0

\* The lists given to the constructor: secrets.choice draws an element and
\* list.remove drops its first occurrence, so what can be built depends on
\* the multiset of `initial` alone, and each multiset is given in
\* non-decreasing order.
InitialLists ==
    {s \in UNION {[1..n -> PointSet] : n \in 0..MaxInitial} :
        \A i \in 1..(Len(s) - 1) : s[i] <= s[i + 1]}

Init ==
    /\ phase = "new"
    /\ vantage_point = None
    /\ given = <<>>
    /\ raised = "None"
    /\ results = <<>>
    /\ last = Call("none", 0, 0)
    /\ prev = None
    /\ count = 0
    /\ nops = 0

\* tree = VPTree(initial), called at recursion depth `depth`. When the
\* constructor raises there is no tree, and nothing more is called.
Build(initial, depth) ==
    /\ phase = "new"
    /\ \E out \in VPTreeInit(initial, depth) :
         /\ phase' = IF out.raised = "None" THEN "built" ELSE "failed"
         /\ vantage_point' = out.node
         /\ raised' = out.raised
         /\ count' = IF out.raised = "None" THEN Len(initial) ELSE 0
    /\ given' = initial
    /\ results' = <<>>
    /\ last' = Call("build", 0, depth)
    /\ prev' = None
    /\ nops' = 0

\* tree.insert(point)
Insert(point) ==
    /\ phase = "built"
    /\ nops < MaxOps
    /\ vantage_point' = VPTreeInsert(vantage_point, point)
    /\ raised' = "None"
    /\ results' = <<>>
    /\ last' = Call("insert", point, 0)
    /\ prev' = vantage_point
    /\ count' = count + 1
    /\ nops' = nops + 1
    /\ UNCHANGED <<phase, given>>

\* tree.remove(point_to_remove)
Remove(point_to_remove) ==
    /\ phase = "built"
    /\ nops < MaxOps
    /\ LET out == VPTreeRemove(vantage_point, point_to_remove)
       IN /\ vantage_point' = IF out.raised = "None" THEN out.node
                              ELSE vantage_point
          /\ raised' = out.raised
    /\ results' = <<>>
    /\ last' = Call("remove", point_to_remove, 0)
    /\ prev' = vantage_point
    /\ count' = IF Stored(vantage_point, point_to_remove)
                   /\ VPTreeRemove(vantage_point, point_to_remove).raised = "None"
                THEN count - 1
                ELSE count
    /\ nops' = nops + 1
    /\ UNCHANGED <<phase, given>>

\* tree.search(query, k)
Search(query, k) ==
    /\ phase = "built"
    /\ LET out == VPTreeSearch(vantage_point, query, k)
       IN /\ raised' = out.raised
          /\ results' = out.results
    /\ last' = Call("search", query, k)
    /\ prev' = vantage_point
    /\ UNCHANGED <<phase, vantage_point, given, count, nops>>

\* tree.radius(point, radius)
Radius(point, radius) ==
    /\ phase = "built"
    /\ raised' = "None"
    /\ results' = VPTreeRadius(vantage_point, point, radius)
    /\ last' = Call("radius", point, radius)
    /\ prev' = vantage_point
    /\ UNCHANGED <<phase, vantage_point, given, count, nops>>

Construct == \E initial \in InitialLists, depth \in 1..MaxDepth : Build(initial, depth)
Mutate == \E point \in PointSet : Insert(point) \/ Remove(point)
QuerySearch == \E query \in PointSet, k \in 0..MaxK : Search(query, k)
QueryRadius == \E point \in PointSet, radius \in 0..MaxRadius : Radius(point, radius)

Next == Construct \/ Mutate \/ QuerySearch \/ QueryRadius

Spec == Init /\ [][Next]_vars

\* Construction, insertion and removal alone: the trees this reaches are the
\* trees Spec reaches, since no query changes the tree.
MutationNext == Construct \/ Mutate

MutationSpec == Init /\ [][MutationNext]_vars

\* ------------------------------------------------- reading the tree
\* The places of the nodes of a tree: the directions from the root.
RECURSIVE Paths(_)
Paths(node) ==
    IF node = None THEN {}
    ELSE {<<>>}
         \cup {<<"inside">> \o p : p \in Paths(node.inside)}
         \cup {<<"outside">> \o p : p \in Paths(node.outside)}

RECURSIVE NodeAt(_, _)
NodeAt(node, path) ==
    IF path = <<>> THEN node
    ELSE NodeAt(IF Head(path) = "inside" THEN node.inside ELSE node.outside,
                Tail(path))

\* The points stored in a subtree.
RECURSIVE SubtreePoints(_)
SubtreePoints(node) ==
    IF node = None THEN {}
    ELSE {node.point} \cup SubtreePoints(node.inside)
                      \cup SubtreePoints(node.outside)

\* The distances from `query` to every stored point, one entry per node.
RECURSIVE Distances(_, _)
Distances(node, query) ==
    IF node = None THEN <<>>
    ELSE <<dist_fn(query, node.point)>> \o Distances(node.inside, query)
                                        \o Distances(node.outside, query)

\* A linear scan: the min(k, n) smallest distances, ascending.
Nearest(root, query, k) ==
    LET all == Sorted(Distances(root, query))
    IN SubSeq(all, 1, IF k <= Len(all) THEN k ELSE Len(all))

Occurrences(s, x) == Cardinality({i \in DOMAIN s : s[i] = x})

ResultDistances == [i \in DOMAIN results |-> results[i][2]]

\* ------------------------------------------------------------ claims

\* C1: whenever search(q, k), k >= 1, returns, it returns (point, distance)
\* pairs whose distances are the min(k, n) smallest distances from q to the
\* stored points, as a linear scan finds them.
C1_SearchReturnsNearest ==
    (last.op = "search" /\ last.num >= 1 /\ raised = "None") =>
        /\ \A i \in DOMAIN results :
              /\ Stored(vantage_point, results[i][1])
              /\ results[i][2] = dist_fn(last.arg, results[i][1])
        /\ Sorted(ResultDistances) = Nearest(vantage_point, last.arg, last.num)

\* C2: radius(q, r) returns exactly the stored points p with
\* dist_fn(q, p) <= r, the boundary included, each as often as it is stored
\* and each with its distance. (The entries hold the Node; its point is read.)
C2_RadiusReturnsBall ==
    (last.op = "radius" /\ raised = "None") =>
        /\ \A i \in DOMAIN results :
              results[i][2] = dist_fn(last.arg, results[i][1].point)
        /\ \A p \in PointSet :
              Cardinality({i \in DOMAIN results : results[i][1].point = p})
                = IF dist_fn(last.arg, p) <= last.num
                  THEN PointCount(vantage_point, p) ELSE 0

\* C3: after a build followed by inserts and removes, len(tree) is the number
\* of points built plus the inserts minus the remove calls whose argument was
\* stored when called (a call that raised is not counted).
C3_LenMatchesHistory ==
    phase = "built" => VPTreeLen(vantage_point) = count

\* C4: remove(p) of a stored p returns, and afterwards every point is stored
\* as often as before, except p, which is stored once less.
C4_RemoveDropsOneOccurrence ==
    (last.op = "remove" /\ Stored(prev, last.arg)) =>
        /\ raised = "None"
        /\ \A p \in PointSet :
              PointCount(vantage_point, p)
                = PointCount(prev, p) - (IF p = last.arg THEN 1 ELSE 0)

\* C5: remove(p) of a p that is not stored returns and leaves the tree as it
\* was: the same nodes, points, thresholds and children.
C5_RemoveAbsentUnchanged ==
    (last.op = "remove" /\ ~Stored(prev, last.arg)) =>
        /\ raised = "None"
        /\ vantage_point = prev

\* C6: VPTree(points) succeeds for every list, and stores every point as often
\* as the list holds it; for the empty list the tree has no root.
C6_BuildStoresInput ==
    last.op = "build" =>
        /\ raised = "None"
        /\ phase = "built"
        /\ \A p \in PointSet :
              PointCount(vantage_point, p) = Occurrences(given, p)
        /\ (given = <<>> => vantage_point = None)

\* C7: what search(q, k) returns has at most k entries, at most n entries, and
\* is in non-decreasing order of distance.
C7_SearchBoundedSorted ==
    (last.op = "search" /\ raised = "None") =>
        /\ Len(results) <= last.num
        /\ Len(results) <= VPTreeLen(vantage_point)
        /\ \A i \in 1..(Len(results) - 1) : results[i][2] <= results[i + 1][2]

\* C8: search on an empty tree, or with k = 0, raises nothing and returns an
\* empty sequence.
C8_SearchEmptyOrZero ==
    (last.op = "search" /\ (vantage_point = None \/ last.num = 0)) =>
        /\ raised = "None"
        /\ results = <<>>

\* C9: insert(p) returns; the tree afterwards is the tree before plus one node,
\* a leaf holding p with threshold 0, at the place reached from the root by
\* going inside where dist_fn(node.point, p) < node.threshold and outside
\* otherwise; len grows by one, and every node of the tree before keeps its
\* point and its threshold.
C9_InsertAddsOneLeaf ==
    last.op = "insert" =>
        /\ raised = "None"
        /\ VPTreeLen(vantage_point) = VPTreeLen(prev) + 1
        /\ \E path \in Paths(vantage_point) \ Paths(prev) :
              /\ Paths(vantage_point) = Paths(prev) \cup {path}
              /\ NodeAt(vantage_point, path) = Leaf(last.arg)
              /\ \A i \in 1..Len(path) :
                    LET node == NodeAt(prev, SubSeq(path, 1, i - 1))
                    IN (path[i] = "inside")
                         <=> (2 * dist_fn(node.point, last.arg) < node.threshold)
        /\ \A old \in Paths(prev) :
              /\ NodeAt(vantage_point, old).point = NodeAt(prev, old).point
              /\ NodeAt(vantage_point, old).threshold = NodeAt(prev, old).threshold

\* An insert whose new leaf was reached by going inside at one node and outside
\* at another.
C9_InsertWentBothWays ==
    /\ last.op = "insert"
    /\ raised = "None"
    /\ \E path \in Paths(vantage_point) \ Paths(prev) :
          /\ NodeAt(vantage_point, path) = Leaf(last.arg)
          /\ \E i \in 1..Len(path) : path[i] = "inside"
          /\ \E i \in 1..Len(path) : path[i] = "outside"

\* C10: in a tree as the constructor returns it, at every node N each point of
\* the inside subtree is at distance <= N.threshold from N.point and each
\* point of the outside subtree at distance > N.threshold; when all the
\* points below N are at one distance from N.point, N has no outside child.
C10_BuildPartition ==
    (last.op = "build" /\ phase = "built") =>
        \A path \in Paths(vantage_point) :
            LET N == NodeAt(vantage_point, path)
                below == SubtreePoints(N.inside) \cup SubtreePoints(N.outside)
            IN /\ \A x \in SubtreePoints(N.inside) :
                     2 * dist_fn(N.point, x) <= N.threshold
               /\ \A x \in SubtreePoints(N.outside) :
                     2 * dist_fn(N.point, x) > N.threshold
               /\ (Cardinality({dist_fn(N.point, x) : x \in below}) <= 1
                     => N.outside = None)

\* A constructed tree with a node that has both children, and a node with
\* several points below it, all at one distance, and no outside child.
C10_BuiltBothCases ==
    /\ last.op = "build"
    /\ phase = "built"
    /\ \E path \in Paths(vantage_point) :
          LET N == NodeAt(vantage_point, path)
          IN N.inside # None /\ N.outside # None
    /\ \E path \in Paths(vantage_point) :
          LET N == NodeAt(vantage_point, path)
              below == SubtreePoints(N.inside) \cup SubtreePoints(N.outside)
          IN /\ NodeLen(N) >= 2
             /\ Cardinality({dist_fn(N.point, x) : x \in below}) = 1
             /\ N.outside = None

====
